---- MODULE Spec2Model ----
(***************************************************************************)
(* Model of the TEI alignment-projection engine of bertalign-api           *)
(* (app/services/tei_service.py): text cleaner, TEI parser, alignment map, *)
(* projector and corpus assembler.                                         *)
(*                                                                         *)
(* A text is a sequence of one-character strings.  An XML text node that   *)
(* is None in Python is the empty sequence here (the code only ever tests  *)
(* such values for truthiness).                                            *)
(***************************************************************************)
EXTENDS Integers, Sequences, FiniteSets, TLC

(***************************************************************************)
(* Bounds of the model.                                                    *)
(***************************************************************************)
\* longest text given to the text cleaner
MaxLen == 4
\* longest unit text given to the granularity decision
MaxTextLen == 10
\* most alignment groups the aligner returns for one request
MaxGroups == 2
\* most units in a list given to the unit resolution
MaxUnits == 3
\* most requests to POST /align/tei served together
MaxRequests == 2

VARIABLES
    pc,               \* position of the request, or of the function under check
    source_xml,       \* request: the source document as received
    target_xml,       \* request: the target document as received
    source_language,  \* request: explicit source language, or NoLang
    target_language,  \* request: explicit target language, or NoLang
    source_doc,       \* TEIDocument parsed from source_xml
    target_doc,       \* TEIDocument parsed from target_xml
    alignments,       \* the alignment groups returned by the aligner
    aligner_calls,    \* number of invocations of bertalign_service.align_texts
    alignment_request,\* the AlignmentRequest handed to the aligner
    aligner_fault,    \* the exception raised inside the external aligner, or NoFault
    endpoint,         \* what the POST /align/tei handler did: service called, status answered
    bertalign_service,\* attributes assigned to the router's module-level BertalignService
    requests,         \* the POST /align/tei requests being served: parameters, response
    result,           \* the value returned by align_tei_documents
    error,            \* the exception raised by align_tei_documents, or NoError
    arg,              \* argument of the pure function under check
    ret               \* value returned by the pure function under check

vars == <<pc, source_xml, target_xml, source_language, target_language, source_doc,
          target_doc, alignments, aligner_calls, alignment_request, aligner_fault,
          endpoint, bertalign_service, requests,
          result, error, arg, ret>>

pipeline_vars == <<source_xml, target_xml, source_language, target_language, source_doc,
                   target_doc, alignments, aligner_calls, alignment_request, aligner_fault,
                   endpoint, bertalign_service, requests,
                   result, error>>

(***************************************************************************)
(* Python string primitives.                                               *)
(***************************************************************************)
\* characters for which str.isspace() holds (also the class \s of re)
Whitespace == {" ", "\t", "\n", "\r", "\f"}

\* the characters of the class [\r\n]
LineBreaks == {"\r", "\n"}

RECURSIVE LStrip(_)
LStrip(s) ==
    IF s = <<>> THEN <<>>
    ELSE IF Head(s) \in Whitespace THEN LStrip(Tail(s)) ELSE s

RECURSIVE RStrip(_)
RStrip(s) ==
    IF s = <<>> THEN <<>>
    ELSE IF s[Len(s)] \in Whitespace THEN RStrip(SubSeq(s, 1, Len(s) - 1)) ELSE s

\* str.strip()
Strip(s) == RStrip(LStrip(s))

\* re.sub(r'[cls]+', ' ', s): every maximal run of characters of cls becomes one space
RECURSIVE ReSubRuns(_, _)
ReSubRuns(cls, s) ==
    IF s = <<>> THEN <<>>
    ELSE IF Head(s) \in cls
         THEN IF Len(s) > 1 /\ s[2] \in cls
              THEN ReSubRuns(cls, Tail(s))
              ELSE <<" ">> \o ReSubRuns(cls, Tail(s))
         ELSE <<Head(s)>> \o ReSubRuns(cls, Tail(s))

\* s[i:j] of Python, 0-based, end exclusive (0 <= i, j <= len(s))
Slice(s, i, j) == SubSeq(s, i + 1, j)

\* s.find(sub): 0-based index of the first occurrence, -1 when there is none
Find(s, sub) ==
    LET hits == {i \in 0..(Len(s) - Len(sub)) : Slice(s, i, i + Len(sub)) = sub}
    IN  IF hits = {} THEN -1 ELSE CHOOSE i \in hits : \A j \in hits : i <= j

\* sub in s
IsIn(sub, s) == Find(s, sub) >= 0

\* sep.join(parts)
RECURSIVE Join(_, _)
Join(sep, parts) ==
    IF parts = <<>> THEN <<>>
    ELSE IF Len(parts) = 1 THEN parts[1]
    ELSE parts[1] \o sep \o Join(sep, Tail(parts))

\* s.split(): the maximal runs of non-whitespace characters, in order
RECURSIVE Split(_)
Split(s) ==
    LET t == LStrip(s)
        RECURSIVE WordLen(_)
        WordLen(u) == IF u = <<>> \/ Head(u) \in Whitespace THEN 0 ELSE 1 + WordLen(Tail(u))
    IN  IF t = <<>> THEN <<>>
        ELSE <<SubSeq(t, 1, WordLen(t))>> \o Split(SubSeq(t, WordLen(t) + 1, Len(t)))

(***************************************************************************)
(* Text cleaner.                                                           *)
(***************************************************************************)
\* _clean_text without the final strip()
_clean_text_unstripped(text) ==
    IF text = <<>> THEN text
    ELSE ReSubRuns(Whitespace, ReSubRuns(LineBreaks, text))

\* TEIService._clean_text
_clean_text(text) ==
    IF text = <<>> THEN text
    ELSE Strip(ReSubRuns(Whitespace, ReSubRuns(LineBreaks, text)))

(***************************************************************************)
(* Element trees.  An element is a record                                  *)
(*   [tag, attrib, text, kids, tail]                                       *)
(* attrib is a set of <<name, value>> pairs, kids the sequence of child    *)
(* elements.  The body of a document is held as the pre-order list of its  *)
(* block elements (div, pb, head, p): no operation of the service reads    *)
(* the parent of a block, body.iter() visits them in exactly this order.   *)
(***************************************************************************)
Elem(tag, attrib, text, kids, tail) ==
    [tag |-> tag, attrib |-> attrib, text |-> text, kids |-> kids, tail |-> tail]

XmlId == "xml:id"

\* Element.get(name): the set of values of attribute name (empty or a singleton)
AttrGet(attrib, name) == {pr[2] : pr \in {q \in attrib : q[1] = name}}

\* Element.set(name, value)
AttrSet(attrib, name, value) == {q \in attrib : q[1] # name} \cup {<<name, value>>}

\* TEIService._get_element_text
RECURSIVE _get_element_text(_)
_get_element_text(element) ==
    LET RECURSIVE ChildTexts(_)
        ChildTexts(kids) ==
            IF kids = <<>> THEN <<>>
            ELSE LET child == Head(kids)
                     child_text == _get_element_text(child)
                 IN  (IF child_text # <<>> THEN <<child_text>> ELSE <<>>)
                     \o (IF child.tail # <<>> THEN <<Strip(child.tail)>> ELSE <<>>)
                     \o ChildTexts(Tail(kids))
        texts == (IF element.text # <<>> THEN <<Strip(element.text)>> ELSE <<>>)
                 \o ChildTexts(element.kids)
    IN  _clean_text(Strip(Join(<<" ">>, texts)))

IsTextTag(tag) == tag \in {"p", "head"}

\* TEIElement(tag, text, attrib)
TEIElement(tag, text, attrib) == [tag |-> tag, text |-> text, attrib |-> attrib]

\* TEIService._extract_text_elements, over the blocks of the body in body.iter() order
RECURSIVE ExtractFromBlocks(_)
ExtractFromBlocks(blocks) ==
    IF blocks = <<>> THEN <<>>
    ELSE LET elem == Head(blocks)
             text_content == _get_element_text(elem)
         IN  (IF IsTextTag(elem.tag) /\ text_content # <<>> /\ Strip(text_content) # <<>>
              THEN <<TEIElement(elem.tag, Strip(text_content), elem.attrib)>>
              ELSE <<>>)
             \o ExtractFromBlocks(Tail(blocks))

_extract_text_elements(root) ==
    IF ~root.has_body THEN <<>> ELSE ExtractFromBlocks(root.body)

NoLang == "None"

\* TEIService._extract_language
_extract_language(root) ==
    IF root.language # NoLang THEN root.language ELSE "unknown"

\* TEIDocument(root, text_elements, language), as built by parse_tei_file
TEIDocument(root) ==
    [root |-> root,
     text_elements |-> _extract_text_elements(root),
     language |-> _extract_language(root)]

(***************************************************************************)
(* Python dicts: a sequence of [key, val] records in insertion order.      *)
(***************************************************************************)
DictHas(d, k) == \E i \in 1..Len(d) : d[i].key = k

DictGet(d, k) == d[CHOOSE i \in 1..Len(d) : d[i].key = k].val

\* d[k] = v: a new key goes last, an existing key keeps its place
DictSet(d, k, v) ==
    IF DictHas(d, k)
    THEN [i \in 1..Len(d) |-> IF d[i].key = k THEN [key |-> k, val |-> v] ELSE d[i]]
    ELSE Append(d, [key |-> k, val |-> v])

(***************************************************************************)
(* Alignment-to-structure mapper.                                          *)
(***************************************************************************)
\* the value None returned when no element matches
NoElement == [tag |-> "None", text |-> <<>>, attrib |-> {}]

\* {elem.text.strip(): elem for elem in text_elements if elem.text and elem.text.strip()}
RECURSIVE TextToElement(_)
TextToElement(text_elements) ==
    IF text_elements = <<>> THEN <<>>
    ELSE LET n == Len(text_elements)
             elem == text_elements[n]
             rest == TextToElement(SubSeq(text_elements, 1, n - 1))
         IN  IF elem.text # <<>> /\ Strip(elem.text) # <<>>
             THEN DictSet(rest, Strip(elem.text), elem)
             ELSE rest

\* TEIService._find_best_matching_element
\* (coverage len(text)/len(element_text) compared by cross-multiplication)
_find_best_matching_element(text, text_to_element) ==
    IF DictHas(text_to_element, text) THEN DictGet(text_to_element, text)
    ELSE LET RECURSIVE Scan(_, _, _)
             \* best = 0: best_match is None and best_coverage is 0
             Scan(i, best, best_match) ==
                 IF i > Len(text_to_element) THEN best_match
                 ELSE LET element_text == text_to_element[i].key
                          better == IF best = 0
                                    THEN Len(text) > 0
                                    ELSE Len(text) * Len(text_to_element[best].key)
                                           > Len(text) * Len(element_text)
                      IN  IF IsIn(text, element_text) /\ better
                          THEN Scan(i + 1, i, text_to_element[i].val)
                          ELSE Scan(i + 1, best, best_match)
         IN  Scan(1, 0, NoElement)

\* _determine_alignment_type with <= in place of < at the 0.9 threshold
_determine_alignment_type_inclusive(aligned_text, element) ==
    IF element = NoElement \/ element.text = <<>> THEN "paragraph"
    ELSE LET element_text == Strip(element.text)
         IN  IF aligned_text = element_text THEN "paragraph"
             ELSE IF IsIn(aligned_text, element_text)
                     /\ 10 * Len(aligned_text) <= 9 * Len(element_text)
                  THEN "sentence"
                  ELSE "paragraph"

\* TEIService._determine_alignment_type
\* (len(aligned_text) < len(element_text) * 0.9 in tenths)
_determine_alignment_type(aligned_text, element) ==
    IF element = NoElement \/ element.text = <<>> THEN "paragraph"
    ELSE LET element_text == Strip(element.text)
         IN  IF aligned_text = element_text THEN "paragraph"
             ELSE IF IsIn(aligned_text, element_text)
                     /\ 10 * Len(aligned_text) < 9 * Len(element_text)
                  THEN "sentence"
                  ELSE "paragraph"

\* str(uuid.uuid4()): the n-th identifier drawn in a request; distinct draws
\* give distinct values
Uuid4(n) == ToString(n)

\* one AlignmentPair of the aligner's result
AlignmentPair(source_sentences, target_sentences) ==
    [source_sentences |-> source_sentences, target_sentences |-> target_sentences]

\* the value stored under a text in source_elements / target_elements
AlignmentInfo(uuid, element, alignment_type, aligned_sentences) ==
    [uuid |-> uuid, element |-> element, alignment_type |-> alignment_type,
     aligned_sentences |-> aligned_sentences]

\* ' '.join(sentences).strip()
JoinedText(sentences) == Strip(Join(<<" ">>, sentences))

\* tei_service.py 231-252 for one side: the entry of the combined text
StoreCombined(elements, text_to_element, sentences, uuid) ==
    LET text == JoinedText(sentences)
        element == _find_best_matching_element(text, text_to_element)
    IN  IF element # NoElement
        THEN DictSet(elements, text,
                     AlignmentInfo(uuid, element,
                                   _determine_alignment_type(text, element), sentences))
        ELSE elements

\* tei_service.py 254-279 for one side: the entries of the individual sentences
RECURSIVE StoreSentences(_, _, _, _, _)
StoreSentences(elements, text_to_element, sentences, uuid, i) ==
    IF i > Len(sentences) THEN elements
    ELSE LET sentence == Strip(sentences[i])
             element == _find_best_matching_element(sentence, text_to_element)
             stored ==
                 IF sentence # <<>> /\ ~DictHas(elements, sentence) /\ element # NoElement
                 THEN DictSet(elements, sentence,
                              AlignmentInfo(uuid, element,
                                            _determine_alignment_type(sentence, element),
                                            sentences))
                 ELSE elements
         IN  StoreSentences(stored, text_to_element, sentences, uuid, i + 1)

\* TEIService._create_enhanced_alignment_map
_create_enhanced_alignment_map(sdoc, tdoc, groups) ==
    LET source_text_to_element == TextToElement(sdoc.text_elements)
        target_text_to_element == TextToElement(tdoc.text_elements)
        RECURSIVE Loop(_, _)
        Loop(k, alignment_map) ==
            IF k > Len(groups) THEN alignment_map
            ELSE LET alignment == groups[k]
                     source_uuid == Uuid4(2 * k - 1)
                     target_uuid == Uuid4(2 * k)
                     src1 == StoreCombined(alignment_map.source_elements,
                                 source_text_to_element, alignment.source_sentences,
                                 source_uuid)
                     tgt1 == StoreCombined(alignment_map.target_elements,
                                 target_text_to_element, alignment.target_sentences,
                                 target_uuid)
                     src2 == StoreSentences(src1, source_text_to_element,
                                 alignment.source_sentences, source_uuid, 1)
                     tgt2 == StoreSentences(tgt1, target_text_to_element,
                                 alignment.target_sentences, target_uuid, 1)
                     link == [source_uuid |-> source_uuid,
                              target_uuid |-> target_uuid,
                              source_text |-> JoinedText(alignment.source_sentences),
                              target_text |-> JoinedText(alignment.target_sentences)]
                 IN  Loop(k + 1, [links |-> Append(alignment_map.links, link),
                                  source_elements |-> src2,
                                  target_elements |-> tgt2])
    IN  Loop(1, [links |-> <<>>, source_elements |-> <<>>, target_elements |-> <<>>])

(***************************************************************************)
(* TEI projector.                                                          *)
(***************************************************************************)
\* TEIService._texts_match (overlap / total > 0.8 in fifths)
_texts_match(text1, text2) ==
    LET norm1 == Join(<<" ">>, Split(text1))
        norm2 == Join(<<" ">>, Split(text2))
        overlap == IF Len(norm1) <= Len(norm2) THEN Len(norm1) ELSE Len(norm2)
        total == IF Len(norm1) >= Len(norm2) THEN Len(norm1) ELSE Len(norm2)
    IN  IF norm1 = norm2 THEN TRUE
        ELSE IF IsIn(norm1, norm2) \/ IsIn(norm2, norm1) THEN 5 * overlap > 4 * total
        ELSE FALSE

\* ET.SubElement(elem, '{ns}seg') with xml:id and text set
SegElement(uuid, text) == Elem("seg", {<<XmlId, uuid>>}, text, <<>>, <<>>)

\* tei_service.py 470-478: the sentences to wrap, in match order
RECURSIVE SentencesToSegment(_, _)
SentencesToSegment(sentence_matches, full_text) ==
    IF sentence_matches = <<>> THEN <<>>
    ELSE LET match == Head(sentence_matches)
             RECURSIVE OfMatch(_)
             OfMatch(i) ==
                 IF i > Len(match.aligned_sentences) THEN <<>>
                 ELSE LET sentence == Strip(match.aligned_sentences[i])
                      IN  (IF sentence # <<>> /\ IsIn(sentence, full_text)
                           THEN <<[text |-> sentence, uuid |-> match.uuid]>>
                           ELSE <<>>) \o OfMatch(i + 1)
         IN  OfMatch(1) \o SentencesToSegment(Tail(sentence_matches), full_text)

\* tei_service.py 523-529: the text left after the last sentence
AddRemainingText(elem, remaining_text) ==
    IF Strip(remaining_text) = <<>> THEN elem
    ELSE IF Len(elem.kids) > 0
         THEN [elem EXCEPT !.kids[Len(elem.kids)].tail = <<" ">> \o Strip(remaining_text)]
         ELSE [elem EXCEPT !.text = elem.text \o Strip(remaining_text)]

\* tei_service.py 494-521: one pass of the loop over sentences_to_segment
\* (i is the 0-based index of enumerate)
RECURSIVE SegmentLoop(_, _, _, _)
SegmentLoop(elem, sentences_to_segment, i, remaining_text) ==
    IF i >= Len(sentences_to_segment) THEN AddRemainingText(elem, remaining_text)
    ELSE LET sentence_text == sentences_to_segment[i + 1].text
             sentence_uuid == sentences_to_segment[i + 1].uuid
             sentence_start == Find(remaining_text, sentence_text)
             before_text == Strip(Slice(remaining_text, 0, sentence_start))
             with_before ==
                 IF sentence_start > 0 /\ before_text # <<>>
                 THEN IF i = 0
                      THEN [elem EXCEPT !.text = before_text \o <<" ">>]
                      ELSE IF Len(elem.kids) > 0
                           THEN [elem EXCEPT !.kids[Len(elem.kids)].tail =
                                                 @ \o before_text \o <<" ">>]
                           ELSE elem
                 ELSE elem
             with_seg == [with_before EXCEPT
                              !.kids = Append(@, SegElement(sentence_uuid, sentence_text))]
             sentence_end == sentence_start + Len(sentence_text)
         IN  IF IsIn(sentence_text, remaining_text)
             THEN SegmentLoop(with_seg, sentences_to_segment, i + 1,
                              Slice(remaining_text, sentence_end, Len(remaining_text)))
             ELSE SegmentLoop(elem, sentences_to_segment, i + 1, remaining_text)

\* Element.clear() followed by elem.tail = original_tail
ClearKeepTail(elem) == Elem(elem.tag, {}, <<>>, <<>>, elem.tail)

\* _create_seg_tags_for_sentences writing the identifier on the element itself
_create_seg_tags_on_element(elem, sentence_matches, full_text) ==
    [elem EXCEPT !.attrib = AttrSet(elem.attrib, XmlId, sentence_matches[1].uuid)]

\* TEIService._create_seg_tags_for_sentences
_create_seg_tags_for_sentences(elem, sentence_matches, full_text) ==
    LET sentences_to_segment == SentencesToSegment(sentence_matches, full_text)
    IN  IF sentences_to_segment = <<>>
        THEN [elem EXCEPT !.attrib = AttrSet(elem.attrib, XmlId, sentence_matches[1].uuid)]
        ELSE SegmentLoop(ClearKeepTail(elem), sentences_to_segment, 0, full_text)

\* ET.fromstring(ET.tostring(root)): text nodes are written as they are and the
\* parser reads "\r\n" and a lone "\r" back as one "\n"
RECURSIVE ReparsedText(_)
ReparsedText(text) ==
    IF text = <<>> THEN <<>>
    ELSE IF Head(text) = "\r"
         THEN IF Len(text) > 1 /\ text[2] = "\n"
              THEN ReparsedText(Tail(text))
              ELSE <<"\n">> \o ReparsedText(Tail(text))
         ELSE <<Head(text)>> \o ReparsedText(Tail(text))

RECURSIVE ReparsedElems(_)
ReparsedElems(elems) ==
    IF elems = <<>> THEN <<>>
    ELSE LET e == Head(elems)
         IN  <<Elem(e.tag, e.attrib, ReparsedText(e.text), ReparsedElems(e.kids),
                    ReparsedText(e.tail))>> \o ReparsedElems(Tail(elems))

\* tei_service.py 387
CopyOfRoot(root) == [root EXCEPT !.body = ReparsedElems(root.body)]

\* tei_service.py 406: the side's map the projector reads
ElementsMapFor(alignment_map, language) ==
    IF language \in {"it", "de", "fr"}
    THEN alignment_map.source_elements
    ELSE alignment_map.target_elements

\* tei_service.py 418-422
RECURSIVE AllMatches(_, _)
AllMatches(elements_map, elem_text_clean) ==
    IF elements_map = <<>> THEN <<>>
    ELSE LET aligned_text == Head(elements_map).key
         IN  (IF _texts_match(elem_text_clean, aligned_text)
                 \/ IsIn(aligned_text, elem_text_clean)
              THEN <<Head(elements_map).val>>
              ELSE <<>>) \o AllMatches(Tail(elements_map), elem_text_clean)

\* tei_service.py 412-426 for one element met by body.iter()
ProjectElement(elem, elements_map) ==
    LET elem_text == _get_element_text(elem)
        elem_text_clean == Strip(elem_text)
        all_matches == AllMatches(elements_map, elem_text_clean)
    IN  IF IsTextTag(elem.tag) /\ elem_text # <<>> /\ elem_text_clean # <<>>
           /\ all_matches # <<>>
        THEN _create_seg_tags_for_sentences(elem, all_matches, elem_text_clean)
        ELSE elem

\* the keys of the alignment_map dict itself, as texts
AlignmentMapKeys ==
    {<<"l", "i", "n", "k", "s">>,
     <<"s", "o", "u", "r", "c", "e", "_", "e", "l", "e", "m", "e", "n", "t", "s">>,
     <<"t", "a", "r", "g", "e", "t", "_", "e", "l", "e", "m", "e", "n", "t", "s">>}

\* tei_service.py 428-442 for one element: the old-format fallback looks the
\* element text up among the keys of alignment_map; the value found (a list or
\* a dict) is written as the identifier, in its str() form
FallbackElement(elem) ==
    LET elem_text == _get_element_text(elem)
    IN  IF IsTextTag(elem.tag) /\ elem_text # <<>> /\ Strip(elem_text) \in AlignmentMapKeys
        THEN _create_seg_tags_for_sentences(elem,
                 <<[uuid |-> "str(alignment_map[key])",
                    aligned_sentences |-> <<Strip(elem_text)>>]>>, Strip(elem_text))
        ELSE elem

\* tei_service.py 391-392: ET.SubElement(None, 'profileDesc') raises TypeError
ProjectionRaises(doc) == ~doc.root.has_profile /\ ~doc.root.has_header

\* TEIService._create_tei_with_ids, when it does not raise
_create_tei_with_ids(doc, alignment_map, language) ==
    LET tei_copy == CopyOfRoot(doc.root)
        elements_map == ElementsMapFor(alignment_map, language)
        projected == [i \in 1..Len(tei_copy.body) |->
                         ProjectElement(tei_copy.body[i], elements_map)]
        fallback == IF elements_map = <<>>
                    THEN [i \in 1..Len(projected) |-> FallbackElement(projected[i])]
                    ELSE projected
    IN  [tei_copy EXCEPT !.has_profile = TRUE,
                         !.language = language,
                         !.body = IF tei_copy.has_body THEN fallback ELSE <<>>,
                         !.facsimile = TRUE]

\* the projector writing into the parsed tree itself
DocAfterProjection_in_place(doc, alignment_map, language) ==
    [doc EXCEPT !.root = _create_tei_with_ids(doc, alignment_map, language)]

\* tei_service.py 387: tei_copy is a new tree parsed from the serialisation of
\* doc.root, and 389-445 write into tei_copy only; the TEIDocument the caller
\* holds is what it was
DocAfterProjection(doc, alignment_map, language) == doc

(***************************************************************************)
(* Corpus assembler.                                                       *)
(***************************************************************************)
\* f"#{uuid}": the reference to an identifier
Ref(uuid) == "#" \o uuid

\* a link element naming the source identifier only
LinkElement_source_only(link_data) ==
    [target |-> <<Ref(link_data.source_uuid)>>, type |-> "Linguistic"]

\* tei_service.py 366-370: the link element of one entry of alignment_map['links'];
\* target holds the space-separated references of the attribute value
\* f"#{source_uuid} #{target_uuid}"
LinkElement(link_data) ==
    [target |-> <<Ref(link_data.source_uuid), Ref(link_data.target_uuid)>>,
     type |-> "Linguistic"]

GenerateRaises(sdoc, tdoc) == ProjectionRaises(sdoc) \/ ProjectionRaises(tdoc)

\* a child of the teiCorpus root: its tag and the document it was made from
CorpusChild(tag, of) == [tag |-> tag, of |-> of]

\* the children of the root with the projected documents ahead of the standOff
CorpusChildren_documents_first ==
    <<CorpusChild("teiHeader", "corpus"), CorpusChild("TEI", "source"),
      CorpusChild("TEI", "target"), CorpusChild("standOff", "corpus")>>

\* tei_service.py 338, 361, 374, 378: the children of the teiCorpus root in the
\* order the SubElement and append calls add them
CorpusChildren ==
    <<CorpusChild("teiHeader", "corpus"), CorpusChild("standOff", "corpus"),
      CorpusChild("TEI", "source"), CorpusChild("TEI", "target")>>

\* TEIService._generate_aligned_tei, when it does not raise: the teiCorpus tree
_generate_aligned_tei(sdoc, tdoc, groups, slang, tlang) ==
    LET alignment_map == _create_enhanced_alignment_map(sdoc, tdoc, groups)
    IN  [children |-> CorpusChildren,
         languages |-> <<slang, tlang>>,
         links |-> [i \in 1..Len(alignment_map.links) |->
                        LinkElement(alignment_map.links[i])],
         source |-> _create_tei_with_ids(sdoc, alignment_map, slang),
         target |-> _create_tei_with_ids(tdoc, alignment_map, tlang)]

(***************************************************************************)
(* The documents, languages and aligner results a request is checked with. *)
(***************************************************************************)
Root(has_header, has_profile, language, has_body, body) ==
    [has_header |-> has_header, has_profile |-> has_profile, language |-> language,
     has_body |-> has_body, body |-> body, facsimile |-> FALSE]

Xml(wellformed, root) == [wellformed |-> wellformed, root |-> root]

P(attrib, text, kids) == Elem("p", attrib, text, kids, <<>>)
HeadElem(attrib, text) == Elem("head", attrib, text, <<>>, <<>>)
Empty(tag) == Elem(tag, {}, <<>>, <<>>, <<>>)

\* <p>a b</p>, language en
SrcPlain == Root(TRUE, TRUE, "en", TRUE, <<P({}, <<"a", " ", "b">>, <<>>)>>)

\* <div/><head type="main">a</head><p xml:id="s1">a<pb/>b</p>, no profileDesc
SrcStructured ==
    Root(TRUE, FALSE, NoLang, TRUE,
         <<Empty("div"),
           HeadElem({<<"type", "main">>}, <<"a">>),
           P({<<XmlId, "s1">>}, <<"a">>, <<Elem("pb", {}, <<>>, <<>>, <<"b">>)>>)>>)

\* <p>ab</p><p>b</p>, language de
SrcInWord ==
    Root(TRUE, TRUE, "de", TRUE, <<P({}, <<"a", "b">>, <<>>), P({}, <<"b">>, <<>>)>>)

\* <p>\r\na <hi>b</hi>\n</p><pb/><p> </p>, language it
SrcWhitespace ==
    Root(TRUE, TRUE, "it", TRUE,
         <<P({}, <<"\r", "\n", "a", " ">>, <<Elem("hi", {}, <<"b">>, <<>>, <<"\n">>)>>),
           Empty("pb"),
           P({}, <<" ">>, <<>>)>>)

\* <p>a</p> in a document without teiHeader
SrcNoHeader == Root(FALSE, FALSE, NoLang, TRUE, <<P({}, <<"a">>, <<>>)>>)

\* a document without body
SrcNoBody == Root(TRUE, TRUE, "it", FALSE, <<>>)

\* <p>x y</p>, language en
TgtPlain == Root(TRUE, TRUE, "en", TRUE, <<P({}, <<"x", " ", "y">>, <<>>)>>)

\* <head>x</head><p>y</p>, no profileDesc
TgtStructured ==
    Root(TRUE, FALSE, NoLang, TRUE, <<HeadElem({}, <<"x">>), P({}, <<"y">>, <<>>)>>)

\* <p> <hi>\n</hi></p><pb/>: a body without text, language it
SrcBlank ==
    Root(TRUE, TRUE, "it", TRUE,
         <<P({}, <<" ">>, <<Elem("hi", {}, <<"\n">>, <<>>, <<>>)>>), Empty("pb")>>)

\* <head> </head>: a body without text, language en
TgtBlank == Root(TRUE, TRUE, "en", TRUE, <<HeadElem({}, <<" ">>)>>)

EmptyRoot == Root(FALSE, FALSE, NoLang, FALSE, <<>>)

\* "<invalid>not closed"
Malformed == Xml(FALSE, EmptyRoot)

SourceXmls ==
    {Xml(TRUE, r) : r \in {SrcPlain, SrcStructured, SrcInWord, SrcWhitespace,
                           SrcNoHeader, SrcNoBody, SrcBlank}} \cup {Malformed}

TargetXmls == {Xml(TRUE, r) : r \in {TgtPlain, TgtStructured, TgtBlank}} \cup {Malformed}

SourceLanguages == {NoLang, "it"}
TargetLanguages == {NoLang, "fr"}

\* the sentence lists the aligner may return on a side of a group
SourceSides == {<<>>, <<<<"a">>>>, <<<<"b">>>>, <<<<"a">>, <<"b">>>>}
TargetSides == {<<>>, <<<<"x">>>>, <<<<"y">>>>, <<<<"x">>, <<"y">>>>}

\* a group is empty on at most one side
GroupChoices ==
    {AlignmentPair(ss, ts) : ss \in SourceSides, ts \in TargetSides}
        \ {AlignmentPair(<<>>, <<>>)}

RECURSIVE SeqsUpTo(_, _)
SeqsUpTo(S, n) ==
    IF n = 0 THEN {<<>>}
    ELSE SeqsUpTo(S, n - 1)
         \cup {Append(q, x) : q \in {r \in SeqsUpTo(S, n - 1) : Len(r) = n - 1}, x \in S}

AlignerResults == SeqsUpTo(GroupChoices, MaxGroups)

(***************************************************************************)
(* One request through TEIService.align_tei_documents.                     *)
(***************************************************************************)
\* models.py 56-99 (AlignmentRequest), 282-318 (TEIAlignmentRequest): the
\* aligner parameters with their defaults; skip is held in tenths (-0.1 is -1)
DefaultParams ==
    [max_align |-> 5, top_k |-> 3, win |-> 5, skip |-> -1,
     margin |-> TRUE, len_penalty |-> TRUE]

\* the aligner parameters a request to POST /align/tei may carry
ParamChoices ==
    {DefaultParams,
     [DefaultParams EXCEPT !.max_align = 3, !.win = 10],
     [DefaultParams EXCEPT !.top_k = 5, !.skip = 0, !.margin = FALSE,
                           !.len_penalty = FALSE]}

\* bertalign_service.py 20-25: the parameters Bertalign(...) is given
ParamsOf(request) ==
    [max_align |-> request.max_align, top_k |-> request.top_k, win |-> request.win,
     skip |-> request.skip, margin |-> request.margin,
     len_penalty |-> request.len_penalty]

NoError == "None"
NoFault == [at |-> "None", raises |-> "None"]
NoResponse == [called_service |-> FALSE, status_code |-> 0, invocation |-> <<>>]
NoRequest == [source_text |-> <<>>, target_text |-> <<>>,
              source_language |-> NoLang, target_language |-> NoLang,
              max_align |-> DefaultParams.max_align, top_k |-> DefaultParams.top_k,
              win |-> DefaultParams.win, skip |-> DefaultParams.skip,
              margin |-> DefaultParams.margin, len_penalty |-> DefaultParams.len_penalty,
              is_split |-> FALSE]
NoDoc == [root |-> EmptyRoot, text_elements |-> <<>>, language |-> "unknown"]
NoTree == [children |-> <<>>, languages |-> <<>>, links |-> <<>>,
           source |-> EmptyRoot, target |-> EmptyRoot]
NoResult == [aligned_xml |-> NoTree, source_language |-> NoLang,
             target_language |-> NoLang, alignment_count |-> 0]

\* models.py validate_supported_language
SupportedLangs ==
    {"ca", "zh", "cs", "da", "nl", "en", "fi", "fr", "de", "el", "hu", "is", "it",
     "lt", "lv", "no", "pl", "pt", "ro", "ru", "sk", "sl", "es", "sv", "tr"}

\* the language chosen with the document's metadata consulted before the argument
FinalLang_metadata_first(explicit, doc) ==
    IF doc.language # "unknown"
    THEN doc.language
    ELSE IF explicit # NoLang /\ explicit # "" THEN explicit ELSE "en"

\* tei_service.py 170-171
FinalLang(explicit, doc) ==
    IF explicit # NoLang /\ explicit # ""
    THEN explicit
    ELSE IF doc.language # "unknown" THEN doc.language ELSE "en"

\* tei_service.py 174-175 and 180-181: the text handed to the aligner
RECURSIVE StrippedTexts(_)
StrippedTexts(text_elements) ==
    IF text_elements = <<>> THEN <<>>
    ELSE (IF Head(text_elements).text # <<>> /\ Strip(Head(text_elements).text) # <<>>
          THEN <<Strip(Head(text_elements).text)>> ELSE <<>>)
         \o StrippedTexts(Tail(text_elements))

RequestText(doc) == Join(<<"\n", "\n">>, StrippedTexts(doc.text_elements))

\* tei_service.py 178-185: the AlignmentRequest built for the aligner; the six
\* aligner parameters are not passed and take the defaults of models.py 56-99
AlignmentRequest(sdoc, tdoc, slang, tlang) ==
    [source_text |-> RequestText(sdoc), target_text |-> RequestText(tdoc),
     source_language |-> slang, target_language |-> tlang,
     max_align |-> DefaultParams.max_align, top_k |-> DefaultParams.top_k,
     win |-> DefaultParams.win, skip |-> DefaultParams.skip,
     margin |-> DefaultParams.margin, len_penalty |-> DefaultParams.len_penalty,
     is_split |-> FALSE]

\* AlignmentRequest validated on its languages only
RequestInvalid_languages_only(sdoc, tdoc, slang, tlang) ==
    \/ slang \notin SupportedLangs
    \/ tlang \notin SupportedLangs

\* models.py AlignmentRequest validators: TRUE when construction raises
RequestInvalid(sdoc, tdoc, slang, tlang) ==
    \/ Strip(RequestText(sdoc)) = <<>>
    \/ Strip(RequestText(tdoc)) = <<>>
    \/ slang \notin SupportedLangs
    \/ tlang \notin SupportedLangs

IdleFunction == /\ arg = <<>>
                /\ ret = <<>>

Init ==
    /\ pc = "parse_source"
    /\ source_xml \in SourceXmls
    /\ target_xml \in TargetXmls
    /\ source_language \in SourceLanguages
    /\ target_language \in TargetLanguages
    /\ source_doc = NoDoc
    /\ target_doc = NoDoc
    /\ alignments = <<>>
    /\ aligner_calls = 0
    /\ alignment_request = NoRequest
    /\ aligner_fault = NoFault
    /\ endpoint = NoResponse
    /\ bertalign_service = <<>>
    /\ requests = <<>>
    /\ result = NoResult
    /\ error = NoError
    /\ IdleFunction

\* parse_tei_file with the ParseError swallowed
ParseFails_swallowed(xml) == FALSE

\* TEIService.parse_tei_file: TRUE when ET.fromstring raises ParseError
ParseFails(xml) == ~xml.wellformed

\* tei_service.py 166: source_doc = self.parse_tei_file(source_xml)
ParseSource ==
    /\ pc = "parse_source"
    /\ IF ParseFails(source_xml)
       THEN /\ pc' = "raised"
            /\ error' = "ValueError: Invalid TEI XML"
            /\ UNCHANGED source_doc
       ELSE /\ pc' = "parse_target"
            /\ source_doc' = TEIDocument(source_xml.root)
            /\ UNCHANGED error
    /\ UNCHANGED <<bertalign_service, requests,
                   source_xml, target_xml, source_language, target_language, target_doc,
                   alignments, aligner_calls, alignment_request, aligner_fault, endpoint, result,
                   arg, ret>>

\* tei_service.py 167: target_doc = self.parse_tei_file(target_xml)
ParseTarget ==
    /\ pc = "parse_target"
    /\ IF ParseFails(target_xml)
       THEN /\ pc' = "raised"
            /\ error' = "ValueError: Invalid TEI XML"
            /\ UNCHANGED target_doc
       ELSE /\ pc' = "align"
            /\ target_doc' = TEIDocument(target_xml.root)
            /\ UNCHANGED error
    /\ UNCHANGED <<bertalign_service, requests,
                   source_xml, target_xml, source_language, target_language, source_doc,
                   alignments, aligner_calls, alignment_request, aligner_fault, endpoint, result,
                   arg, ret>>

\* tei_service.py 169-185: AlignmentRequest(...) is rejected by its validators
RejectRequest ==
    /\ pc = "align"
    /\ RequestInvalid(source_doc, target_doc, FinalLang(source_language, source_doc),
                      FinalLang(target_language, target_doc))
    /\ pc' = "raised"
    /\ error' = "ValidationError"
    /\ UNCHANGED <<bertalign_service, requests,
                   source_xml, target_xml, source_language, target_language, source_doc,
                   target_doc, alignments, aligner_calls, alignment_request, aligner_fault,
                   endpoint, result,
                   arg, ret>>

\* tei_service.py 169-188: the aligner is invoked and returns its groups
AlignTexts ==
    /\ pc = "align"
    /\ ~RequestInvalid(source_doc, target_doc, FinalLang(source_language, source_doc),
                       FinalLang(target_language, target_doc))
    /\ alignment_request' =
           AlignmentRequest(source_doc, target_doc, FinalLang(source_language, source_doc),
                            FinalLang(target_language, target_doc))
    /\ \E groups \in AlignerResults : alignments' = groups
    /\ aligner_calls' = aligner_calls + 1
    /\ pc' = "generate"
    /\ UNCHANGED <<bertalign_service, requests,
                   source_xml, target_xml, source_language, target_language, source_doc,
                   target_doc, aligner_fault, endpoint, result, error, arg, ret>>

\* the ways the external aligner fails: in the constructor Bertalign(...) with
\* KeyError (a language it does not know) or another exception, or in align_sents()
AlignerFaults ==
    {[at |-> "Bertalign", raises |-> "KeyError"],
     [at |-> "Bertalign", raises |-> "Exception"],
     [at |-> "align_sents", raises |-> "Exception"]}

\* align_texts wrapping every fault of the aligner in RuntimeError
AlignTextsError_runtime_only(fault) ==
    IF fault.at = "Bertalign"
    THEN "RuntimeError: Failed to initialize Bertalign"
    ELSE "RuntimeError: Alignment failed"

\* bertalign_service.py 31-34 and 41-42: the exception align_texts raises
AlignTextsError(fault) ==
    IF fault.at = "Bertalign"
    THEN IF fault.raises = "KeyError"
         THEN "ValueError: Unsupported language"
         ELSE "RuntimeError: Failed to initialize Bertalign"
    ELSE "RuntimeError: Alignment failed"

\* tei_service.py 188 and 204-206: the aligner raises, align_texts wraps the
\* exception and align_tei_documents re-raises it
AlignTextsRaises ==
    /\ pc = "align"
    /\ ~RequestInvalid(source_doc, target_doc, FinalLang(source_language, source_doc),
                       FinalLang(target_language, target_doc))
    /\ alignment_request' =
           AlignmentRequest(source_doc, target_doc, FinalLang(source_language, source_doc),
                            FinalLang(target_language, target_doc))
    /\ aligner_calls' = aligner_calls + 1
    /\ pc' = "raised"
    /\ \E fault \in AlignerFaults :
           /\ aligner_fault' = fault
           /\ error' = AlignTextsError(fault)
    /\ UNCHANGED <<bertalign_service, requests,
                   source_xml, target_xml, source_language, target_language, source_doc,
                   target_doc, alignments, endpoint, result, arg, ret>>

\* tei_service.py 190-202: _generate_aligned_tei and the returned dict
GenerateAlignedTei ==
    /\ pc = "generate"
    /\ IF GenerateRaises(source_doc, target_doc)
       THEN /\ pc' = "raised"
            /\ error' = "TypeError"
            /\ UNCHANGED result
       ELSE /\ pc' = "returned"
            /\ result' =
                 [aligned_xml |->
                      _generate_aligned_tei(source_doc, target_doc, alignments,
                                            FinalLang(source_language, source_doc),
                                            FinalLang(target_language, target_doc)),
                  source_language |-> FinalLang(source_language, source_doc),
                  target_language |-> FinalLang(target_language, target_doc),
                  alignment_count |-> Len(alignments)]
            /\ UNCHANGED error
    /\ LET alignment_map ==
               _create_enhanced_alignment_map(source_doc, target_doc, alignments)
       IN  /\ source_doc' =
                 IF ProjectionRaises(source_doc) THEN source_doc
                 ELSE DocAfterProjection(source_doc, alignment_map,
                                         FinalLang(source_language, source_doc))
           /\ target_doc' =
                 IF GenerateRaises(source_doc, target_doc) THEN target_doc
                 ELSE DocAfterProjection(target_doc, alignment_map,
                                         FinalLang(target_language, target_doc))
    /\ UNCHANGED <<bertalign_service, requests,
                   source_xml, target_xml, source_language, target_language,
                   alignments, aligner_calls, alignment_request, aligner_fault,
                   endpoint, arg, ret>>

Next ==
    \/ ParseSource
    \/ ParseTarget
    \/ RejectRequest
    \/ AlignTexts
    \/ AlignTextsRaises
    \/ GenerateAlignedTei

Spec == Init /\ [][Next]_vars

IdleRequest ==
    /\ source_xml = Malformed
    /\ target_xml = Malformed
    /\ source_language = NoLang
    /\ target_language = NoLang
    /\ source_doc = NoDoc
    /\ target_doc = NoDoc
    /\ alignments = <<>>
    /\ aligner_calls = 0
    /\ alignment_request = NoRequest
    /\ aligner_fault = NoFault
    /\ endpoint = NoResponse
    /\ bertalign_service = <<>>
    /\ requests = <<>>
    /\ result = NoResult
    /\ error = NoError

(***************************************************************************)
(* The text cleaner applied, and applied again, to every text of at most   *)
(* MaxLen characters.                                                      *)
(***************************************************************************)
CleanAlphabet == {"a", " ", "\t", "\n", "\r", "\f"}

RECURSIVE TextsUpTo(_, _)
TextsUpTo(alphabet, n) ==
    IF n = 0 THEN {<<>>}
    ELSE TextsUpTo(alphabet, n - 1)
         \cup {Append(t, c) : t \in {u \in TextsUpTo(alphabet, n - 1) : Len(u) = n - 1},
                              c \in alphabet}

InitClean ==
    /\ pc = "clean"
    /\ arg \in TextsUpTo(CleanAlphabet, MaxLen)
    /\ ret = <<>>
    /\ IdleRequest

\* ret = self._clean_text(arg)
CleanText ==
    /\ pc = "clean"
    /\ ret' = _clean_text(arg)
    /\ pc' = "cleaned"
    /\ UNCHANGED arg
    /\ UNCHANGED pipeline_vars

\* the cleaner applied to its own result
CleanTextAgain ==
    /\ pc = "cleaned"
    /\ arg' = ret
    /\ ret' = _clean_text(ret)
    /\ pc' = "recleaned"
    /\ UNCHANGED pipeline_vars

NextClean == CleanText \/ CleanTextAgain

SpecClean == InitClean /\ [][NextClean]_vars

(***************************************************************************)
(* The granularity decision applied to every span and unit text of a       *)
(* family of texts of at most MaxTextLen characters.                       *)
(***************************************************************************)
RECURSIVE Rep(_, _)
Rep(c, n) == IF n = 0 THEN <<>> ELSE <<c>> \o Rep(c, n - 1)

\* a^i, a^i b a^j, a^i <space> a^j
TypeTexts ==
    {Rep("a", i) \o m \o Rep("a", j) :
        i \in 0..MaxTextLen, j \in 0..MaxTextLen, m \in {<<>>, <<"b">>, <<" ">>}}

\* the texts a unit can have: cleaned and not empty
UnitTexts == {t \in TypeTexts : Len(t) \in 1..MaxTextLen /\ _clean_text(t) = t}

SpanTexts == {t \in TypeTexts : Len(t) <= MaxTextLen}

InitType ==
    /\ pc = "type"
    /\ arg \in {[aligned_text |-> sp, element |-> TEIElement("p", t, {})] :
                    sp \in SpanTexts, t \in UnitTexts}
    /\ ret = <<>>
    /\ IdleRequest

\* ret = self._determine_alignment_type(aligned_text, element)
DetermineAlignmentType ==
    /\ pc = "type"
    /\ ret' = _determine_alignment_type(arg.aligned_text, arg.element)
    /\ pc' = "typed"
    /\ UNCHANGED arg
    /\ UNCHANGED pipeline_vars

NextType == DetermineAlignmentType

SpecType == InitType /\ [][NextType]_vars

(***************************************************************************)
(* Observations of the assembled output, as the tests make them.           *)
(***************************************************************************)
SetToSeq(S) == IF S = {} THEN <<>> ELSE <<CHOOSE x \in S : TRUE>>

\* the xml:id values of the elements of a forest, in document order
RECURSIVE XmlIdsOf(_)
XmlIdsOf(elems) ==
    IF elems = <<>> THEN <<>>
    ELSE SetToSeq(AttrGet(Head(elems).attrib, XmlId))
         \o XmlIdsOf(Head(elems).kids) \o XmlIdsOf(Tail(elems))

\* the xml:id values of the whole teiCorpus tree
OutputIds(tree) == XmlIdsOf(tree.source.body) \o XmlIdsOf(tree.target.body)

NoDuplicates(q) == \A i, j \in 1..Len(q) : i # j => q[i] # q[j]

Range(q) == {q[i] : i \in 1..Len(q)}

\* the number of elements with a tag in a forest
RECURSIVE CountTag(_, _)
CountTag(elems, tag) ==
    IF elems = <<>> THEN 0
    ELSE (IF Head(elems).tag = tag THEN 1 ELSE 0)
         + CountTag(Head(elems).kids, tag) + CountTag(Tail(elems), tag)

SegsOf(elem) == SelectSeq(elem.kids, LAMBDA k : k.tag = "seg")

Returned == pc = "returned"

\* the alignment map of the request, as _generate_aligned_tei builds it
RequestMap == _create_enhanced_alignment_map(source_doc, target_doc, alignments)

(***************************************************************************)
(* C1: the assembled output of align_tei_documents contains no two         *)
(* elements carrying the same xml:id value, whatever the alignment groups. *)
(* Violated: the sentences of one side of a group all receive the group's  *)
(* identifier.                                                             *)
(***************************************************************************)
C1_UniqueXmlIds == Returned => NoDuplicates(OutputIds(result.aligned_xml))

(***************************************************************************)
(* C2: every identifier referenced by a link of the standoff block is the  *)
(* xml:id of an element emitted in one of the two projected documents.     *)
(* Violated: a link always names both identifiers of its group.            *)
(***************************************************************************)
C2_LinksResolve ==
    Returned =>
        \A i \in 1..Len(result.aligned_xml.links) :
            \A r \in 1..Len(result.aligned_xml.links[i].target) :
                result.aligned_xml.links[i].target[r]
                    \in {Ref(id) : id \in Range(OutputIds(result.aligned_xml))}

(***************************************************************************)
(* C3: for every p/head element the flattened, whitespace-normalized text  *)
(* of the projected element equals that of the original element.           *)
(* Violated: a sentence found inside a word splits the word.               *)
(***************************************************************************)
TextPreserved(original, projected) ==
    \A i \in 1..Len(original.body) :
        IsTextTag(original.body[i].tag) =>
            _get_element_text(projected.body[i]) = _get_element_text(original.body[i])

C3_NoContentLoss ==
    Returned => /\ TextPreserved(source_doc.root, result.aligned_xml.source)
                /\ TextPreserved(target_doc.root, result.aligned_xml.target)

(***************************************************************************)
(* C4: the numbers of div, pb and head elements of a projected document    *)
(* equal their numbers in the original document.                           *)
(* Violated: Element.clear() drops a pb inside a rewritten paragraph.      *)
(***************************************************************************)
StructurePreserved(original, projected) ==
    \A tag \in {"div", "pb", "head"} :
        CountTag(projected.body, tag) = CountTag(original.body, tag)

C4_StructurePreserved ==
    Returned => /\ StructurePreserved(source_doc.root, result.aligned_xml.source)
                /\ StructurePreserved(target_doc.root, result.aligned_xml.target)

(***************************************************************************)
(* C5: when either input document is not well-formed XML the request ends  *)
(* with the error 'Invalid TEI XML' raised by parse_tei_file and the       *)
(* aligner is never invoked.                                               *)
(***************************************************************************)
C5_MalformedAborts ==
    (~source_xml.wellformed \/ ~target_xml.wellformed) =>
        /\ aligner_calls = 0
        /\ pc \in {"parse_source", "parse_target", "raised"}
        /\ ~source_xml.wellformed => pc \in {"parse_source", "raised"}
        /\ pc = "raised" => error = "ValueError: Invalid TEI XML"

\* the target document is the malformed one and the request has been aborted
C5_Witness ==
    /\ pc = "raised"
    /\ source_xml.wellformed
    /\ ~target_xml.wellformed
    /\ source_doc.text_elements # <<>>

(***************************************************************************)
(* C6: _determine_alignment_type returns 'paragraph' when the span equals  *)
(* the unit's full text, 'sentence' when the span occurs in the unit's     *)
(* text and len(span) < 0.9 * len(unit text), 'paragraph' otherwise.       *)
(***************************************************************************)
Occurs(sub, s) ==
    \E i \in 0..(Len(s) - Len(sub)) : \A k \in 1..Len(sub) : s[i + k] = sub[k]

C6_Granularity ==
    pc = "typed" =>
        ret = IF arg.aligned_text = arg.element.text THEN "paragraph"
              ELSE IF Occurs(arg.aligned_text, arg.element.text)
                      /\ 10 * Len(arg.aligned_text) < 9 * Len(arg.element.text)
                   THEN "sentence"
                   ELSE "paragraph"

\* the residual case: a span inside the unit's text, at 90% of its length
C6_Witness ==
    /\ pc = "typed"
    /\ ret = "paragraph"
    /\ arg.aligned_text # arg.element.text
    /\ Occurs(arg.aligned_text, arg.element.text)
    /\ 10 * Len(arg.aligned_text) = 9 * Len(arg.element.text)

(***************************************************************************)
(* C7: _clean_text is idempotent, and its result holds no line break,      *)
(* carriage return or tab, no two consecutive spaces and no leading or     *)
(* trailing whitespace.                                                    *)
(***************************************************************************)
IsClean(t) ==
    /\ \A i \in 1..Len(t) : t[i] \notin {"\n", "\r", "\t"}
    /\ \A i \in 1..(Len(t) - 1) : ~(t[i] = " " /\ t[i + 1] = " ")
    /\ t # <<>> => (t[1] \notin Whitespace /\ t[Len(t)] \notin Whitespace)

C7_CleanIdempotent ==
    /\ pc \in {"cleaned", "recleaned"} => IsClean(ret)
    /\ pc = "recleaned" => ret = arg

\* a text the cleaner had to change, cleaned a second time
C7_Witness ==
    /\ pc = "recleaned"
    /\ Len(ret) = 3
    /\ ret[2] = " "

(***************************************************************************)
(* C8 as stated: when a group's side span equals a unit's full text and no *)
(* sentence-level entry applies to the unit, the projected element itself  *)
(* carries the identifier and has no seg child.                            *)
(* Violated: the projector always wraps the text in a seg.                 *)
(***************************************************************************)
Applies(aligned_text, elem_text) ==
    _texts_match(elem_text, aligned_text) \/ IsIn(aligned_text, elem_text)

SpanOfGroup(group, side) ==
    JoinedText(IF side = "source" THEN group.source_sentences ELSE group.target_sentences)

SideMap(side) ==
    IF side = "source" THEN RequestMap.source_elements ELSE RequestMap.target_elements

OriginalOf(side) == IF side = "source" THEN source_doc.root ELSE target_doc.root

ProjectedOf(side) ==
    IF side = "source" THEN result.aligned_xml.source ELSE result.aligned_xml.target

LanguageOf(side) ==
    IF side = "source" THEN result.source_language ELSE result.target_language

\* the p/head elements of a side with text: indexes into the body
TextBlocks(side) ==
    {i \in 1..Len(OriginalOf(side).body) :
        /\ IsTextTag(OriginalOf(side).body[i].tag)
        /\ _get_element_text(OriginalOf(side).body[i]) # <<>>}

FullText(side, i) == _get_element_text(OriginalOf(side).body[i])

ProjectorMap(side) == ElementsMapFor(RequestMap, LanguageOf(side))

OnlyWholeUnitEntry(elements_map, full_text) ==
    /\ DictHas(elements_map, full_text)
    /\ \A e \in 1..Len(elements_map) :
           elements_map[e].key # full_text => ~Applies(elements_map[e].key, full_text)

WholeUnitSeg(side) ==
    LET elements_map == ProjectorMap(side)
    IN  \A i \in TextBlocks(side) :
            OnlyWholeUnitEntry(elements_map, FullText(side, i))
            => LET uuid == DictGet(elements_map, FullText(side, i)).uuid
                   elem == ProjectedOf(side).body[i]
               IN  /\ elem.kids = <<SegElement(uuid, FullText(side, i))>>
                   /\ elem.text = <<>>
                   /\ uuid \notin AttrGet(elem.attrib, XmlId)

GroupsSpanning(side, full_text) ==
    {k \in 1..Len(alignments) : SpanOfGroup(alignments[k], side) = full_text}

C9_WholeUnitOneSeg ==
    Returned =>
        \A side \in {"source", "target"} : \A i \in TextBlocks(side) :
            Cardinality(GroupsSpanning(side, FullText(side, i))) = 1
            => LET elem == ProjectedOf(side).body[i]
               IN  /\ Len(elem.kids) = 1
                   /\ elem.kids[1].tag = "seg"
                   /\ elem.kids[1].text = FullText(side, i)
                   /\ AttrGet(elem.kids[1].attrib, XmlId) \notin {{}, {""}}

(***************************************************************************)
(* C10: a paragraph of n sentences aligned against another paragraph by n  *)
(* one-sentence-to-one-sentence groups yields, in each projected           *)
(* paragraph, n seg children in sentence order, each with its sentence as  *)
(* text and a distinct xml:id, and n links, the i-th referencing the i-th  *)
(* seg of the source and the i-th seg of the target paragraph.             *)
(* Violated: the side's map is chosen by language code.                    *)
(***************************************************************************)
OneToOneGroups ==
    /\ Len(alignments) >= 2
    /\ \A k \in 1..Len(alignments) :
           /\ Len(alignments[k].source_sentences) = 1
           /\ Len(alignments[k].target_sentences) = 1

SentencesOf(side) ==
    [k \in 1..Len(alignments) |->
        IF side = "source" THEN alignments[k].source_sentences[1]
        ELSE alignments[k].target_sentences[1]]

\* the paragraphs of a side made of exactly the aligned sentences, in order
ParagraphsOfSentences(side) ==
    {i \in TextBlocks(side) : FullText(side, i) = Join(<<" ">>, SentencesOf(side))}

SegIds(elem) == XmlIdsOf(SegsOf(elem))

SegPerSentence(side, i) ==
    LET elem == ProjectedOf(side).body[i]
    IN  /\ Len(elem.kids) = Len(alignments)
        /\ \A k \in 1..Len(elem.kids) :
               /\ elem.kids[k].tag = "seg"
               /\ elem.kids[k].text = SentencesOf(side)[k]
        /\ Len(SegIds(elem)) = Len(alignments)
        /\ NoDuplicates(SegIds(elem))

C10_SegPerSentence ==
    (Returned /\ OneToOneGroups) =>
        \A i \in ParagraphsOfSentences("source"), j \in ParagraphsOfSentences("target") :
            /\ SegPerSentence("source", i)
            /\ SegPerSentence("target", j)
            /\ Len(result.aligned_xml.links) = Len(alignments)
            /\ \A k \in 1..Len(alignments) :
                   result.aligned_xml.links[k].target
                       = <<Ref(SegIds(ProjectedOf("source").body[i])[k]),
                           Ref(SegIds(ProjectedOf("target").body[j])[k])>>

(***************************************************************************)
(* C11: in the mapper every individual-sentence entry of a side of a group *)
(* has an identifier of its own: the entries of a side's map registered    *)
(* under different texts carry different identifiers.                      *)
(* Violated: the sentences are stored under the group's identifier.        *)
(***************************************************************************)
DistinctEntryIds(elements) ==
    \A e, f \in 1..Len(elements) : e # f => elements[e].val.uuid # elements[f].val.uuid

C11_FreshSentenceIds ==
    Returned => /\ DistinctEntryIds(RequestMap.source_elements)
                /\ DistinctEntryIds(RequestMap.target_elements)

(***************************************************************************)
(* C12: the number of link elements of the assembled output equals the     *)
(* alignment_count returned by align_tei_documents, which is the number of *)
(* groups the aligner returned, and the target of every link holds exactly *)
(* two references, each a '#' followed by an identifier drawn for the      *)
(* request.                                                                *)
(***************************************************************************)
\* the identifiers _create_enhanced_alignment_map draws for the request
DrawnIds == {Uuid4(n) : n \in 1..(2 * Len(alignments))}

C12_LinkPerGroup ==
    Returned =>
        /\ Len(result.aligned_xml.links) = result.alignment_count
        /\ result.alignment_count = Len(alignments)
        /\ \A i \in 1..Len(result.aligned_xml.links) :
               /\ Len(result.aligned_xml.links[i].target) = 2
               /\ \A r \in 1..2 :
                      result.aligned_xml.links[i].target[r] \in {Ref(id) : id \in DrawnIds}

\* two groups, one of them with an empty side
C12_Witness ==
    /\ Returned
    /\ Len(alignments) = 2
    /\ alignments[1].source_sentences = <<>>
    /\ Len(result.aligned_xml.links) = 2

(***************************************************************************)
(* C13: the target of a link lists only the identifiers of the sides that  *)
(* were mapped to a unit: a group with no mapped side has no link, a group *)
(* with one unmapped side has a link without that side's identifier.       *)
(* Violated: every group gets a link naming both identifiers.              *)
(***************************************************************************)
SentencesOfGroup(group, side) ==
    IF side = "source" THEN group.source_sentences ELSE group.target_sentences

UnitsOf(side) ==
    TextToElement(IF side = "source" THEN source_doc.text_elements
                  ELSE target_doc.text_elements)

\* the span of the side, or one of its sentences, resolves to a unit
SideMapped(group, side) ==
    \/ _find_best_matching_element(SpanOfGroup(group, side), UnitsOf(side)) # NoElement
    \/ \E i \in 1..Len(SentencesOfGroup(group, side)) :
           /\ Strip(SentencesOfGroup(group, side)[i]) # <<>>
           /\ _find_best_matching_element(Strip(SentencesOfGroup(group, side)[i]),
                                          UnitsOf(side)) # NoElement

MappedRefs(k) ==
    (IF SideMapped(alignments[k], "source") THEN <<Ref(Uuid4(2 * k - 1))>> ELSE <<>>)
    \o (IF SideMapped(alignments[k], "target") THEN <<Ref(Uuid4(2 * k))>> ELSE <<>>)

C13_LinksOfMappedSides ==
    Returned =>
        [i \in 1..Len(result.aligned_xml.links) |-> result.aligned_xml.links[i].target]
            = SelectSeq([k \in 1..Len(alignments) |-> MappedRefs(k)], LAMBDA t : t # <<>>)

(***************************************************************************)
(* C14: for each side independently align_tei_documents uses the language  *)
(* given explicitly when one is given, otherwise the language of the       *)
(* document's metadata, and 'en' when that is the 'unknown' sentinel; that *)
(* language is the one in the request handed to the aligner and the one    *)
(* returned in the result.                                                 *)
(***************************************************************************)
ExplicitOf(side) == IF side = "source" THEN source_language ELSE target_language

DocOf(side) == IF side = "source" THEN source_doc ELSE target_doc

ChosenLanguage(side) ==
    CASE ExplicitOf(side) # NoLang -> ExplicitOf(side)
      [] ExplicitOf(side) = NoLang /\ DocOf(side).language # "unknown" -> DocOf(side).language
      [] OTHER -> "en"

C14_LanguageChoice ==
    /\ aligner_calls > 0 =>
           /\ alignment_request.source_language = ChosenLanguage("source")
           /\ alignment_request.target_language = ChosenLanguage("target")
    /\ Returned =>
           /\ result.source_language = ChosenLanguage("source")
           /\ result.target_language = ChosenLanguage("target")

\* the source language given explicitly against different metadata, the target
\* language taken from the fallback
C14_Witness ==
    /\ Returned
    /\ source_language = "it"
    /\ source_doc.language \notin {"it", "unknown"}
    /\ target_language = NoLang
    /\ target_doc.language = "unknown"
    /\ result.source_language = "it"
    /\ result.target_language = "en"

(***************************************************************************)
(* The handler of POST /align/tei (app/routers/alignment.py 88-112) for a  *)
(* request that passed the validation of TEIAlignmentRequest.              *)
(***************************************************************************)
\* the fields of models.TEIAlignmentRequest
TEIAlignmentRequestFields ==
    {"source_tei", "target_tei", "source_language", "target_language",
     "max_align", "top_k", "win", "skip", "margin", "len_penalty"}

\* the attributes of the request the handler reads to call the service
ForwardedAttributes == {"languageA", "languageB", "languageA_name", "languageB_name"}

\* reading an attribute that is no field of the model raises AttributeError
ForwardRaises == \E a \in ForwardedAttributes : a \notin TEIAlignmentRequestFields

\* how tei_service.align_tei_documents can end for the arguments given:
\* "returned" or the class of the exception raised
ServiceOutcomes(sxml, txml, slang, tlang) ==
    IF ParseFails(sxml) \/ ParseFails(txml) THEN {"ValueError"}
    ELSE LET sdoc == TEIDocument(sxml.root)
             tdoc == TEIDocument(txml.root)
         IN  IF RequestInvalid(sdoc, tdoc, FinalLang(slang, sdoc), FinalLang(tlang, tdoc))
             THEN {"ValidationError"}
             ELSE {"ValueError", "RuntimeError"}
                  \cup (IF GenerateRaises(sdoc, tdoc) THEN {"TypeError"} ELSE {"returned"})

\* alignment.py 107-112: the status answered for an outcome
\* (pydantic's ValidationError is a ValueError)
StatusCode(outcome) ==
    CASE outcome = "returned" -> 200
      [] outcome \in {"ValueError", "ValidationError"} -> 400
      [] OTHER -> 500

\* the language codes a validated request can carry
EndpointLanguages == {"it", "en", "fr"}

\* a request received by the handler, with the aligner parameters it carries
Received(params) == [params |-> params, pc |-> "received", response |-> NoResponse]

\* tei_service.py 160-188: align_tei_documents reaches bertalign_service.align_texts
ServiceInvokesAligner(sxml, txml, slang, tlang) ==
    /\ ~ParseFails(sxml)
    /\ ~ParseFails(txml)
    /\ ~RequestInvalid(TEIDocument(sxml.root), TEIDocument(txml.root),
                       FinalLang(slang, TEIDocument(sxml.root)),
                       FinalLang(tlang, TEIDocument(txml.root)))

\* the parameters of the aligner invocations align_tei_documents makes
ServiceInvocations(sxml, txml, slang, tlang) ==
    IF ServiceInvokesAligner(sxml, txml, slang, tlang)
    THEN <<ParamsOf(AlignmentRequest(TEIDocument(sxml.root), TEIDocument(txml.root),
                                     FinalLang(slang, TEIDocument(sxml.root)),
                                     FinalLang(tlang, TEIDocument(txml.root))))>>
    ELSE <<>>

\* alignment.py 99-112: the ways the handler can answer
HandlerResponses(sxml, txml, slang, tlang) ==
    IF ForwardRaises
    THEN {[called_service |-> FALSE, status_code |-> StatusCode("AttributeError"),
           invocation |-> <<>>]}
    ELSE {[called_service |-> TRUE, status_code |-> StatusCode(outcome),
           invocation |-> ServiceInvocations(sxml, txml, slang, tlang)] :
             outcome \in ServiceOutcomes(sxml, txml, slang, tlang)}

InitApi ==
    /\ pc = "endpoint"
    /\ source_xml \in SourceXmls
    /\ target_xml \in TargetXmls
    /\ source_language \in EndpointLanguages
    /\ target_language \in EndpointLanguages
    /\ source_doc = NoDoc
    /\ target_doc = NoDoc
    /\ alignments = <<>>
    /\ aligner_calls = 0
    /\ alignment_request = NoRequest
    /\ aligner_fault = NoFault
    /\ endpoint = NoResponse
    /\ bertalign_service = <<>>
    /\ requests \in {<<Received(params)>> : params \in ParamChoices}
    /\ result = NoResult
    /\ error = NoError
    /\ IdleFunction

\* alignment.py 90-112: the whole handler, for the r-th request; an async
\* function without await, it runs to its end before another request is served
HandleRequest(r) ==
    /\ requests[r].pc = "received"
    /\ bertalign_service' = <<requests[r].params>>
    /\ \E response \in HandlerResponses(source_xml, target_xml,
                                        source_language, target_language) :
           /\ endpoint' = response
           /\ requests' = [requests EXCEPT ![r] = [@ EXCEPT !.pc = "responded",
                                                            !.response = response]]
    /\ UNCHANGED <<source_xml, target_xml, source_language, target_language, source_doc,
                   target_doc, alignments, aligner_calls, alignment_request, aligner_fault,
                   result, error, arg, ret>>

AlignTeiEndpoint ==
    /\ pc = "endpoint"
    /\ pc' = "responded"
    /\ HandleRequest(1)

NextApi == AlignTeiEndpoint

SpecApi == InitApi /\ [][NextApi]_vars

(***************************************************************************)
(* C15: a validated POST /align/tei request is forwarded to the TEI        *)
(* service; the endpoint answers 400 when a document is malformed XML, and *)
(* otherwise the status of the way the service ended (200 when it          *)
(* returned).                                                              *)
(* Violated: the handler reads request.languageA, languageB,               *)
(* languageA_name and languageB_name, which TEIAlignmentRequest does not   *)
(* define; the AttributeError is answered with 500.                        *)
(***************************************************************************)
C15_EndpointForwards ==
    pc = "responded" =>
        /\ endpoint.called_service
        /\ (~source_xml.wellformed \/ ~target_xml.wellformed) => endpoint.status_code = 400
        /\ endpoint.status_code
               \in {StatusCode(outcome) :
                       outcome \in ServiceOutcomes(source_xml, target_xml,
                                                   source_language, target_language)}

(***************************************************************************)
(* C16: whatever groups the aligner returned, including groups with an     *)
(* empty side and spans found in no unit, building the alignment map,      *)
(* projecting both documents and assembling the output complete without    *)
(* raising: a request that has its groups returns.                         *)
(* Violated: projecting a document without teiHeader raises TypeError.     *)
(***************************************************************************)
C16_GenerationCompletes == [][pc = "generate" => pc' = "returned"]_vars

(***************************************************************************)
(* C17: when the external aligner raises, align_texts raises ValueError    *)
(* for a KeyError of the constructor and RuntimeError for any other        *)
(* failure of the constructor or of align_sents, and align_tei_documents   *)
(* ends with that error and returns no aligned XML.                        *)
(***************************************************************************)
C17_AlignerErrorPropagates ==
    aligner_fault # NoFault =>
        /\ pc = "raised"
        /\ result = NoResult
        /\ error = CASE aligner_fault.at = "Bertalign" /\ aligner_fault.raises = "KeyError"
                          -> "ValueError: Unsupported language"
                     [] aligner_fault.at = "Bertalign" /\ aligner_fault.raises # "KeyError"
                          -> "RuntimeError: Failed to initialize Bertalign"
                     [] OTHER -> "RuntimeError: Alignment failed"

\* the constructor of the aligner did not know a language of the request
C17_Witness ==
    /\ pc = "raised"
    /\ aligner_fault = [at |-> "Bertalign", raises |-> "KeyError"]
    /\ aligner_calls = 1
    /\ error = "ValueError: Unsupported language"

(***************************************************************************)
(* Unit resolution applied to every span and every list of at most         *)
(* MaxUnits units of a family of texts.  The units of a list carry their   *)
(* position in the attribute n, so that units of equal text differ.        *)
(***************************************************************************)
FindUnitTexts == {<<"a">>, <<"a", "b">>, <<"b", "a">>, <<"a", " ", "b">>}

FindSpans == {<<>>, <<"a">>, <<"b">>, <<"a", "b">>, <<"c">>}

\* the unit list parse_tei_file builds for paragraphs with the texts given
UnitList(texts) ==
    [i \in 1..Len(texts) |-> TEIElement("p", texts[i], {<<"n", ToString(i)>>})]

InitFind ==
    /\ pc = "find"
    /\ arg \in {[text |-> sp, text_elements |-> UnitList(texts)] :
                    sp \in FindSpans,
                    texts \in SeqsUpTo(FindUnitTexts, MaxUnits) \ {<<>>}}
    /\ ret = <<>>
    /\ IdleRequest

\* tei_service.py 218 and 232: the lookup table is built from the unit list and
\* ret = self._find_best_matching_element(text, text_to_element)
FindBestMatchingElement ==
    /\ pc = "find"
    /\ ret' = _find_best_matching_element(arg.text, TextToElement(arg.text_elements))
    /\ pc' = "found"
    /\ UNCHANGED arg
    /\ UNCHANGED pipeline_vars

NextFind == FindBestMatchingElement

SpecFind == InitFind /\ [][NextFind]_vars

(***************************************************************************)
(* C18: _find_best_matching_element returns the unit whose text equals the *)
(* span when there is one; otherwise, among the units whose text contains  *)
(* the span, one of greatest len(span)/len(unit text); among several units *)
(* that qualify equally, units of identical text included, the first in    *)
(* document order; and no unit when no unit text contains the span (an     *)
(* empty span resolves to no unit).                                        *)
(* Violated: the lookup table is keyed by text, so of several units with   *)
(* the same text the last one is returned.                                 *)
(***************************************************************************)
FirstOf(S) == CHOOSE i \in S : \A j \in S : i <= j

ExpectedUnit(text, units) ==
    LET exact == {i \in 1..Len(units) : units[i].text = text}
        containing == {i \in 1..Len(units) : Occurs(text, units[i].text)}
        \* greatest coverage: the shortest unit text that contains the span
        best == {i \in containing : \A j \in containing :
                                        Len(units[i].text) <= Len(units[j].text)}
    IN  IF exact # {} THEN units[FirstOf(exact)]
        ELSE IF text # <<>> /\ containing # {} THEN units[FirstOf(best)]
        ELSE NoElement

C18_FirstBestUnit ==
    pc = "found" => ret = ExpectedUnit(arg.text, arg.text_elements)

(***************************************************************************)
(* C19: whatever the two language codes, the source document is projected  *)
(* with the source-side map and the target document with the target-side   *)
(* map.                                                                    *)
(* Violated: the map is chosen by the language code (the source-side map   *)
(* for it, de and fr, the target-side map for every other code).           *)
(***************************************************************************)
\* the alignment map of the request with the map of one side on both sides
MapOfSideOnly(side) ==
    [RequestMap EXCEPT !.source_elements = SideMap(side),
                       !.target_elements = SideMap(side)]

ProjectedWithOwnMap(side) ==
    ProjectedOf(side) = _create_tei_with_ids(DocOf(side), MapOfSideOnly(side), LanguageOf(side))

C19_MapOfOwnSide ==
    Returned => ProjectedWithOwnMap("source") /\ ProjectedWithOwnMap("target")

(***************************************************************************)
(* C20: when two groups carry the same span text on a side, and the span   *)
(* resolves to a unit, the side's map holds the identifier of each of the  *)
(* two groups and both identifiers are emitted in the projected document.  *)
(* Violated: the map is keyed by text, so the later group's entry          *)
(* replaces the earlier one.                                               *)
(***************************************************************************)
\* the identifier drawn for a side of the k-th group
GroupId(k, side) == IF side = "source" THEN Uuid4(2 * k - 1) ELSE Uuid4(2 * k)

MapIds(elements) == {elements[e].val.uuid : e \in 1..Len(elements)}

SameSpan(j, k, side) ==
    /\ j # k
    /\ SpanOfGroup(alignments[j], side) = SpanOfGroup(alignments[k], side)
    /\ _find_best_matching_element(SpanOfGroup(alignments[j], side), UnitsOf(side))
           # NoElement

C20_RepeatedTextKeepsIds ==
    Returned =>
        \A side \in {"source", "target"} : \A j, k \in 1..Len(alignments) :
            SameSpan(j, k, side)
            => /\ {GroupId(j, side), GroupId(k, side)} \subseteq MapIds(SideMap(side))
               /\ {GroupId(j, side), GroupId(k, side)}
                      \subseteq Range(XmlIdsOf(ProjectedOf(side).body))

(***************************************************************************)
(* C21: projection works on a copy.                                        *)
(***************************************************************************)
\* the TEIDocument parse_tei_file built from an input
ParsedDoc(xml) == TEIDocument(xml.root)

\* the projected tree of a side differs from the parsed tree in its body
BodyRewritten(side) ==
    ProjectedOf(side).body # OriginalOf(side).body

BlockElements(side) ==
    {i \in 1..Len(OriginalOf(side).body) : IsTextTag(OriginalOf(side).body[i].tag)}

\* some entry of the side's own map applies to the element (tei_service.py 419-420)
EntryApplies(side, i) ==
    \E n \in 1..Len(SideMap(side)) :
        Applies(SideMap(side)[n].key, Strip(_get_element_text(OriginalOf(side).body[i])))

\* C22: a p/head element of the body to which no entry of its side's map
\* applies has, in the projected tree, the text, children, tails and
\* attributes it has in the original
C22_UnmatchedUntouched ==
    Returned =>
        \A side \in {"source", "target"} : \A i \in BlockElements(side) :
            ~EntryApplies(side, i) =>
                ProjectedOf(side).body[i] = OriginalOf(side).body[i]

(***************************************************************************)
(* C23: the shape of the assembled teiCorpus.                              *)
(***************************************************************************)
\* C23: the children of the assembled root are, in this order, the corpus
\* header, the standOff block, the projected source document and the projected
\* target document; the standOff holds one link per alignment group, in group
\* order, each of type 'Linguistic' with target '#<sourceId> #<targetId>'
C23_CorpusShape ==
    Returned =>
        LET corpus == result.aligned_xml
            links == RequestMap.links
        IN  /\ [i \in 1..Len(corpus.children) |-> corpus.children[i].tag]
                   = <<"teiHeader", "standOff", "TEI", "TEI">>
            /\ corpus.children[3].of = "source"
            /\ corpus.children[4].of = "target"
            /\ Len(corpus.links) = Len(alignments)
            /\ \A k \in 1..Len(alignments) :
                   /\ links[k].source_text = SpanOfGroup(alignments[k], "source")
                   /\ links[k].target_text = SpanOfGroup(alignments[k], "target")
                   /\ links[k].source_uuid = GroupId(k, "source")
                   /\ links[k].target_uuid = GroupId(k, "target")
                   /\ corpus.links[k].type = "Linguistic"
                   /\ corpus.links[k].target =
                          <<Ref(links[k].source_uuid), Ref(links[k].target_uuid)>>

\* two different groups, both linked
C23_Witness ==
    /\ Returned
    /\ Len(alignments) = 2
    /\ SpanOfGroup(alignments[1], "source") # SpanOfGroup(alignments[2], "source")
    /\ result.aligned_xml.links[1].target # result.aligned_xml.links[2].target
    /\ result.aligned_xml.children[2].tag = "standOff"

(***************************************************************************)
(* C24: the unit list parse_tei_file returns.                              *)
(***************************************************************************)
\* the text of an element and of its descendants in reading order: the
\* element's leading text, then each child's full text followed by its tail
RECURSIVE DescendantText(_)
DescendantText(element) ==
    LET RECURSIVE OfKids(_)
        OfKids(kids) ==
            IF kids = <<>> THEN <<>>
            ELSE DescendantText(Head(kids)) \o Head(kids).tail \o OfKids(Tail(kids))
    IN  element.text \o OfKids(element.kids)

\* one unit per p/head element whose cleaned descendant text is not empty, in
\* the order of the pre-order traversal
RECURSIVE UnitsInOrder(_)
UnitsInOrder(blocks) ==
    IF blocks = <<>> THEN <<>>
    ELSE LET elem == Head(blocks)
             text == _clean_text(DescendantText(elem))
         IN  (IF IsTextTag(elem.tag) /\ text # <<>>
              THEN <<TEIElement(elem.tag, text, elem.attrib)>>
              ELSE <<>>) \o UnitsInOrder(Tail(blocks))

UnitsAsStated(root) == IF root.has_body THEN UnitsInOrder(root.body) ELSE <<>>

\* C24: parse_tei_file returns one unit per p/head element of the body whose
\* cleaned descendant text is not empty, in pre-order, the unit's text being
\* the cleaned concatenation of the descendant text; no unit when the
\* document has no body
C24_UnitsOfBody ==
    /\ (pc # "parse_source" /\ ~ParseFails(source_xml)) =>
           source_doc.text_elements = UnitsAsStated(source_xml.root)
    /\ (pc \notin {"parse_source", "parse_target"} /\ ~ParseFails(target_xml)
           /\ ~ParseFails(source_xml)) =>
           target_doc.text_elements = UnitsAsStated(target_xml.root)

(***************************************************************************)
(* The server: the requests to POST /align/tei it has received are handled *)
(* one after the other, in any order, by the handler of alignment.py; the  *)
(* module-level bertalign_service (alignment.py 20-22) is the same object  *)
(* for all of them.                                                        *)
(***************************************************************************)
Clients == 1..MaxRequests

InitServer ==
    /\ pc = "serving"
    /\ source_xml \in SourceXmls
    /\ target_xml \in TargetXmls
    /\ source_language \in EndpointLanguages
    /\ target_language \in EndpointLanguages
    /\ source_doc = NoDoc
    /\ target_doc = NoDoc
    /\ alignments = <<>>
    /\ aligner_calls = 0
    /\ alignment_request = NoRequest
    /\ aligner_fault = NoFault
    /\ endpoint = NoResponse
    /\ bertalign_service = <<>>
    /\ requests \in [Clients -> {Received(params) : params \in ParamChoices}]
    /\ result = NoResult
    /\ error = NoError
    /\ IdleFunction

ServeTei(r) ==
    /\ pc = "serving"
    /\ UNCHANGED pc
    /\ HandleRequest(r)

NextServer == \E r \in Clients : ServeTei(r)

SpecServer == InitServer /\ [][NextServer]_vars

(***************************************************************************)
(* C25: concurrent requests share no mutable state.                        *)
(***************************************************************************)
\* the step serves request r
StepOf(r) == requests'[r] # requests[r]

\* C25: in any interleaving of the requests, the steps of one request write no
\* variable that another request reads or writes: the attributes of the
\* module-level service object, which every request's handler assigns, are
\* left as they are by the steps of each request
C25_NoSharedState ==
    [][\A r \in Clients : StepOf(r) => bertalign_service' = bertalign_service]_vars

(***************************************************************************)
(* C26: projection of a document parse_tei_file accepted does not raise.   *)
(***************************************************************************)
\* both documents of the request were accepted by parse_tei_file
BothAccepted == ~ParseFails(source_xml) /\ ~ParseFails(target_xml)

\* C26: for documents parse_tei_file accepted (with or without teiHeader,
\* profileDesc or body) and the map the mapper built, _create_tei_with_ids
\* completes: the request does not end with the error of a projection
C26_ProjectionCompletes ==
    (BothAccepted /\ pc = "raised") => error # "TypeError"

(***************************************************************************)
(* C27: the aligner parameters of a request are those of its invocation.   *)
(***************************************************************************)
\* the documents and languages sent are such that align_tei_documents, once
\* called with them, invokes the aligner
Alignable ==
    ServiceInvokesAligner(source_xml, target_xml, source_language, target_language)

\* C27: for a request to POST /align/tei whose documents reach the aligner,
\* the aligner invocation made for it uses the max_align, top_k, win, skip,
\* margin and len_penalty given in that request
C27_RequestParamsUsed ==
    \A r \in Clients :
        (requests[r].pc = "responded" /\ Alignable) =>
            requests[r].response.invocation = <<requests[r].params>>

(***************************************************************************)
(* C28: identifiers are written into the resolved unit only.               *)
(***************************************************************************)
\* the unit parse_tei_file made of the i-th block of a side
UnitOfBlock(side, i) ==
    LET elem == OriginalOf(side).body[i]
    IN  TEIElement(elem.tag, Strip(_get_element_text(elem)), elem.attrib)

\* the identifiers found on the i-th projected block of a side and inside it
IdsWrittenIn(side, i) == Range(XmlIdsOf(<<ProjectedOf(side).body[i]>>))

\* the entries of the side's map that carry an identifier
EntriesWithId(side, uuid) ==
    {n \in 1..Len(SideMap(side)) : SideMap(side)[n].val.uuid = uuid}

\* C28: an identifier of an entry of a side's map is written only inside the
\* element the mapper resolved as that entry's unit; no other p/head element
\* receives it, even when the entry's text occurs in it too
C28_IdInResolvedUnit ==
    Returned =>
        \A side \in {"source", "target"} : \A i \in TextBlocks(side) :
            \A uuid \in IdsWrittenIn(side, i) :
                EntriesWithId(side, uuid) # {} =>
                    \E n \in EntriesWithId(side, uuid) :
                        SideMap(side)[n].val.element = UnitOfBlock(side, i)

(***************************************************************************)
(* C29: an element given seg children keeps its attributes.                *)
(***************************************************************************)
\* projection put seg children into the i-th block of a side
SegsInserted(side, i) == SegsOf(ProjectedOf(side).body[i]) # <<>>

\* C29: a p or head element into which projection inserted seg children has,
\* in the projected tree, all the attributes it had in the original document
C29_AttributesKept ==
    Returned =>
        \A side \in {"source", "target"} : \A i \in TextBlocks(side) :
            SegsInserted(side, i) =>
                OriginalOf(side).body[i].attrib \subseteq ProjectedOf(side).body[i].attrib

(***************************************************************************)
(* C30: a request with an empty unit list fails before the aligner.        *)
(***************************************************************************)
\* both documents were parsed and one of them has no unit
EmptyUnitList ==
    /\ pc \notin {"parse_source", "parse_target"}
    /\ BothAccepted
    /\ (source_doc.text_elements = <<>> \/ target_doc.text_elements = <<>>)

\* the request failed in the construction of the AlignmentRequest
RequestRejected ==
    /\ pc = "raised"
    /\ error = "ValidationError"
    /\ alignment_request = NoRequest
    /\ result = NoResult

\* C30: when a document of the request yields an empty unit list, the step
\* that follows parsing fails in the construction of the alignment request,
\* and no step of the request invokes the aligner
C30_EmptyUnitsRejected ==
    [][EmptyUnitList => /\ aligner_calls' = 0
                        /\ aligner_fault' = NoFault
                        /\ pc = "align" => RequestRejected']_vars

\* a source with text and a target whose body has no text: rejected
C30_Witness ==
    /\ RequestRejected
    /\ source_doc.text_elements # <<>>
    /\ target_doc.root.has_body
    /\ target_doc.text_elements = <<>>
    /\ aligner_calls = 0
    /\ FinalLang(source_language, source_doc) \in SupportedLangs
    /\ FinalLang(target_language, target_doc) \in SupportedLangs

====
